---- MODULE Spec2Model ----
(***************************************************************************)
(* gastitis: the expense command parser (bot/utils.py), the handlers that  *)
(* call it (bot/handlers.py) and the report aggregator, as a state machine *)
(* over the persisted store.                                               *)
(*                                                                         *)
(* Strings are sequences of one-character strings ("10u" is <<"1","0",     *)
(* "u">>), so that startswith, replace, split and join are computed and    *)
(* not assumed.  A Decimal is [c |-> coefficient, e |-> exponent], the     *)
(* number c * 10^(-e), kept without trailing zeros so that equal numbers   *)
(* are equal values.  An optional value (None in the source) is a          *)
(* sequence of length 0 or 1.                                              *)
(***************************************************************************)
EXTENDS Integers, Sequences, FiniteSets, TLC

VARIABLES users, expenses, tags, rates, last

vars == <<users, expenses, tags, rates, last>>

\* ------------------------------------------------------------------ bounds
MaxExpenses == 2
MaxTokens == 6

\* ------------------------------------------------------------ str methods
startswith(s, p) == Len(p) <= Len(s) /\ SubSeq(s, 1, Len(p)) = p

endswith(s, p) == Len(p) <= Len(s) /\ SubSeq(s, Len(s) - Len(p) + 1, Len(s)) = p

RECURSIVE str_replace(_, _, _)
str_replace(s, old, new) ==
    IF old = <<>> \/ Len(s) < Len(old) THEN s
    ELSE IF SubSeq(s, 1, Len(old)) = old
         THEN new \o str_replace(SubSeq(s, Len(old) + 1, Len(s)), old, new)
         ELSE <<Head(s)>> \o str_replace(Tail(s), old, new)

RECURSIVE str_split(_, _)
str_split(s, sep) ==
    IF \A i \in 1..Len(s) : s[i] # sep THEN <<s>>
    ELSE LET i == CHOOSE k \in 1..Len(s) :
                      s[k] = sep /\ \A j \in 1..(k - 1) : s[j] # sep
         IN <<SubSeq(s, 1, i - 1)>> \o str_split(SubSeq(s, i + 1, Len(s)), sep)

RECURSIVE str_join(_, _)
str_join(sep, parts) ==
    IF parts = <<>> THEN <<>>
    ELSE IF Len(parts) = 1 THEN parts[1]
    ELSE parts[1] \o sep \o str_join(sep, Tail(parts))

\* list.index(x): the first position of x, 0 standing for ValueError
list_index(l, x) ==
    IF \A i \in 1..Len(l) : l[i] # x THEN 0
    ELSE CHOOSE k \in 1..Len(l) : l[k] = x /\ \A j \in 1..(k - 1) : l[j] # x

\* list.pop(i) leaves the list without its i-th element
list_pop(l, i) == SubSeq(l, 1, i - 1) \o SubSeq(l, i + 1, Len(l))

\* ---------------------------------------------------------------- Decimal
Digits == {"0", "1", "2", "3", "4", "5", "6", "7", "8", "9"}

DigitVal(ch) ==
    CASE ch = "0" -> 0 [] ch = "1" -> 1 [] ch = "2" -> 2 [] ch = "3" -> 3
      [] ch = "4" -> 4 [] ch = "5" -> 5 [] ch = "6" -> 6 [] ch = "7" -> 7
      [] ch = "8" -> 8 [] ch = "9" -> 9

RECURSIVE DigitsToNat(_)
DigitsToNat(s) ==
    IF s = <<>> THEN 0
    ELSE 10 * DigitsToNat(SubSeq(s, 1, Len(s) - 1)) + DigitVal(s[Len(s)])

RECURSIVE Pow10(_)
Pow10(n) == IF n = 0 THEN 1 ELSE 10 * Pow10(n - 1)

RECURSIVE Dec(_, _)
Dec(c, e) == IF e > 0 /\ c % 10 = 0 THEN Dec(c \div 10, e - 1) ELSE [c |-> c, e |-> e]

\* Decimal(s) over the characters the commands below are written in: an
\* optional sign, digits with at most one period, at least one digit (no
\* command holds an exponent, "NaN", "Infinity", a blank or an underscore).
\* <<>> stands for InvalidOperation.
Decimal(s) ==
    LET signed == s # <<>> /\ s[1] \in {"-", "+"}
        body == IF signed THEN Tail(s) ELSE s
        dots == {i \in 1..Len(body) : body[i] = "."}
        wellformed == /\ \A i \in 1..Len(body) : body[i] \in Digits \cup {"."}
                      /\ Cardinality(dots) <= 1
                      /\ \E i \in 1..Len(body) : body[i] \in Digits
        frac == IF dots = {} THEN 0 ELSE Len(body) - (CHOOSE i \in dots : TRUE)
        coef == DigitsToNat(SelectSeq(body, LAMBDA ch : ch \in Digits))
    IN IF ~wellformed THEN <<>>
       ELSE <<Dec(IF signed /\ s[1] = "-" THEN 0 - coef ELSE coef, frac)>>

DecAdd(a, b) ==
    LET e == IF a.e >= b.e THEN a.e ELSE b.e
    IN Dec(a.c * Pow10(e - a.e) + b.c * Pow10(e - b.e), e)

DecMul(a, b) == Dec(a.c * b.c, a.e + b.e)

\* n / d (d > 0) rounded to the nearest integer, ties to the even one
RoundHalfEven(n, d) ==
    LET q == n \div d
        r == n % d
    IN IF 2 * r < d THEN q
       ELSE IF 2 * r > d THEN q + 1
       ELSE IF q % 2 = 0 THEN q ELSE q + 1

\* round(x, ndigits) of a Decimal: quantize, ROUND_HALF_EVEN
DecRound(x, ndigits) ==
    IF x.e <= ndigits THEN x
    ELSE Dec(RoundHalfEven(x.c, Pow10(x.e - ndigits)), ndigits)

\* round(a / b * 100) for b # 0: an integer, ties to even
Percentage(a, b) ==
    LET n == 100 * a.c * Pow10(b.e)
        d == b.c * Pow10(a.e)
    IN IF d > 0 THEN RoundHalfEven(n, d) ELSE RoundHalfEven(0 - n, 0 - d)

\* aggregate(Sum('amount')) over rows; <<>> (None) when there is no row
RECURSIVE SumAmounts(_)
SumAmounts(rows) ==
    IF rows = <<>> THEN <<>>
    ELSE LET rest == SumAmounts(Tail(rows))
         IN IF rest = <<>> THEN <<Head(rows).amount>>
            ELSE <<DecAdd(Head(rows).amount, rest[1])>>

\* ------------------------------------------------------------------ dates
IsLeap(y) == y % 4 = 0 /\ (y % 100 # 0 \/ y % 400 = 0)

DaysIn(y, m) ==
    IF m = 2 THEN (IF IsLeap(y) THEN 29 ELSE 28)
    ELSE IF m \in {4, 6, 9, 11} THEN 30 ELSE 31

\* datetime.strptime(s, '%d/%m/%y').date(): <<y, m, d>>, <<>> for ValueError
strptime(s) ==
    LET parts == str_split(s, "/")
        digits(p) == \A i \in 1..Len(p) : p[i] \in Digits
    IN IF Len(parts) # 3 THEN <<>>
       ELSE LET d == parts[1]
                m == parts[2]
                y == parts[3]
            IN IF ~(/\ digits(d) /\ Len(d) \in {1, 2} /\ DigitsToNat(d) \in 1..31
                    /\ digits(m) /\ Len(m) \in {1, 2} /\ DigitsToNat(m) \in 1..12
                    /\ digits(y) /\ Len(y) = 2)
               THEN <<>>
               ELSE LET yy == DigitsToNat(y)
                        year == IF yy <= 68 THEN 2000 + yy ELSE 1900 + yy
                    IN IF DigitsToNat(d) > DaysIn(year, DigitsToNat(m)) THEN <<>>
                       ELSE << <<year, DigitsToNat(m), DigitsToNat(d)>> >>

\* dt.date.today()
Today == <<2026, 11, 1>>

DateLeq(a, b) ==
    \/ a[1] < b[1]
    \/ a[1] = b[1] /\ a[2] < b[2]
    \/ a[1] = b[1] /\ a[2] = b[2] /\ a[3] <= b[3]

\* ------------------------------------------------------------- vocabulary
T_dd == <<"d", "d">>
T_tt == <<"t", "t">>

\* expenses.models.CURRENCY, an ordered table of <<code, symbol>> pairs: the
\* key is what ExchangeRate.currency holds ("40u", "usd40" in the help text)
CURRENCY == << <<<<"u">>, <<"u", "s", "d">>>>, <<<<"r">>, <<"b", "r", "l">>>> >>

Users == {"A", "B"}
Groups == {"g1", "g2"}

\* the exchange-rate table: two rates loaded for "u", the later one last, and
\* none for "r"
Rate1 == [currency |-> <<"u">>, rate |-> Dec(35, 1), date |-> <<2026, 9, 1>>]
Rate2 == [currency |-> <<"u">>, rate |-> Dec(1125, 3), date |-> <<2026, 10, 1>>]
RateTable == <<Rate1, Rate2>>

\* ------------------------------------------------------------ error texts
\* a text is [msg, codes, value]: the wording, the currency codes it lists and
\* the string it quotes (both empty but in the invalid-amount text)
Text(msg) == [msg |-> msg, codes |-> <<>>, value |-> <<>>]

TextNeedAmount == Text("Necesito que me digas cuanto pagaste y una descripcion del gasto.")
TextNeedDescription == Text("Necesito que agregues en el comando una descripcion del gasto")
TextDateFormat == Text("Luego del parametro dd necesito que ingreses la fecha ... con formato dd/mm/yy")
TextHelpDd == Text("Colocar la fecha en la que se genero el gasto despues del argumento dd")
TextHelpTt == Text("Luego de tt colocar el nombre de la/las etiqueta/s ...")

\* special_arguments: keyword and help text, in the dict's order
special_arguments == << <<T_dd, TextHelpDd>>, <<T_tt, TextHelpTt>> >>

\* the text of the invalid-amount error: it lists the whole currency table and
\* quotes the string that is no number
TextInvalidAmount(amount_without_currency) ==
    [msg |-> "El primer valor que me pasas ... tiene que ser el valor de lo que pagaste",
     codes |-> CURRENCY,
     value |-> amount_without_currency]

\* ------------------------------------------------- get_amount_and_currency
\* ExchangeRate.objects.filter(currency=key).last(): <<>> when there is none
last_exchange_rate(rateTable, key) ==
    LET rows == SelectSeq(rateTable, LAMBDA r : r.currency = key)
    IN IF rows = <<>> THEN <<>> ELSE <<rows[Len(rows)]>>

get_amount_and_currency(raw_amount, rateTable) ==
    LET matches == {i \in 1..Len(CURRENCY) :
                        \/ startswith(raw_amount, CURRENCY[i][1])
                        \/ startswith(raw_amount, CURRENCY[i][2])
                        \/ endswith(raw_amount, CURRENCY[i][1])
                        \/ endswith(raw_amount, CURRENCY[i][2])}
        found == matches # {}
        first == CHOOSE i \in matches : \A j \in matches : i <= j
        key == IF found THEN CURRENCY[first][1] ELSE <<>>
        value == IF found THEN CURRENCY[first][2] ELSE <<>>
        exchange_rate == IF found THEN last_exchange_rate(rateTable, key) ELSE <<>>
        amount_without_currency == str_replace(str_replace(raw_amount, value, <<>>), key, <<>>)
        original_amount == Decimal(str_replace(amount_without_currency, <<",">>, <<".">>))
    IN IF original_amount = <<>>
       THEN [ok |-> FALSE, text |-> TextInvalidAmount(amount_without_currency)]
       ELSE [ok |-> TRUE,
             amount |-> IF exchange_rate # <<>>
                        THEN DecMul(original_amount[1], exchange_rate[1].rate)
                        ELSE original_amount[1],
             exchange_rate |-> exchange_rate,
             original_amount |-> original_amount[1]]

\* --------------------------------------------------- decode_expense_params
\* look_for_argument catching IndexError together with ValueError
look_for_argument_swallowing(s, argument, text) ==
    LET argument_position == list_index(s.params, argument)
        popped == list_pop(s.params, argument_position)
    IN IF ~s.ok THEN s
       ELSE IF argument_position = 0
            THEN [s EXCEPT !.data = s.data \o <<<<>>>>]
       ELSE IF argument_position > Len(popped)
            THEN [s EXCEPT !.data = s.data \o <<<<>>>>, !.params = popped]
       ELSE [s EXCEPT !.data = s.data \o <<<<popped[argument_position]>>>>,
                      !.params = list_pop(popped, argument_position)]

\* look_for_argument reading the value without popping it
look_for_argument_keeping(s, argument, text) ==
    LET argument_position == list_index(s.params, argument)
        popped == list_pop(s.params, argument_position)
    IN IF ~s.ok THEN s
       ELSE IF argument_position = 0
            THEN [s EXCEPT !.data = s.data \o <<<<>>>>]
       ELSE IF argument_position > Len(popped)
            THEN [s EXCEPT !.ok = FALSE, !.text = text, !.params = popped]
       ELSE [s EXCEPT !.data = s.data \o <<<<popped[argument_position]>>>>,
                      !.params = popped]

\* one round of the loop over special_arguments: s is [ok, text, data, params]
look_for_argument(s, argument, text) ==
    LET argument_position == list_index(s.params, argument)
        popped == list_pop(s.params, argument_position)
    IN IF ~s.ok THEN s
       ELSE IF argument_position = 0
            THEN [s EXCEPT !.data = s.data \o <<<<>>>>]
       ELSE IF argument_position > Len(popped)
            THEN [s EXCEPT !.ok = FALSE, !.text = text, !.params = popped]
       ELSE [s EXCEPT !.data = s.data \o <<<<popped[argument_position]>>>>,
                      !.params = list_pop(popped, argument_position)]

RECURSIVE look_for_arguments(_, _)
look_for_arguments(s, arguments) ==
    IF arguments = <<>> THEN s
    ELSE look_for_arguments(look_for_argument(s, Head(arguments)[1], Head(arguments)[2]),
                            Tail(arguments))

\* the loop of lines 115-124: [ok, text, dd, tt, params], dd and tt optional
look_for_special_arguments(params) ==
    LET s == look_for_arguments([ok |-> TRUE, text |-> Text(""), data |-> <<>>, params |-> params],
                                special_arguments)
    IN [ok |-> s.ok, text |-> s.text,
        dd |-> IF s.ok THEN s.data[1] ELSE <<>>,
        tt |-> IF s.ok THEN s.data[2] ELSE <<>>,
        params |-> s.params]

\* an optional string is true when it is there and not empty
Truthy(opt) == opt # <<>> /\ opt[1] # <<>>

\* lines 133-141: [ok, date]
handle_date(dd) ==
    IF Truthy(dd)
    THEN LET d == strptime(dd[1])
         IN IF d = <<>> THEN [ok |-> FALSE, date |-> Today] ELSE [ok |-> TRUE, date |-> d[1]]
    ELSE [ok |-> TRUE, date |-> Today]

\* Tag.objects.get_or_create(name, group) on the Tag table: the row's key and
\* the table afterwards
get_or_create_tag(tagTable, name, group) ==
    LET hits == {i \in 1..Len(tagTable) : tagTable[i].name = name /\ tagTable[i].group = group}
    IN IF hits # {}
       THEN [pk |-> CHOOSE i \in hits : \A j \in hits : i <= j, table |-> tagTable]
       ELSE [pk |-> Len(tagTable) + 1,
             table |-> Append(tagTable, [name |-> name, group |-> group])]

\* the body of the loop of lines 146-148 for one split name t
tag_for(tagTable, t, tt, group) == get_or_create_tag(tagTable, tt, group)

RECURSIVE tags_loop(_, _, _, _, _)
tags_loop(names, tt, group, tagTable, tags_list) ==
    IF names = <<>> THEN [list |-> tags_list, table |-> tagTable]
    ELSE LET r == tag_for(tagTable, Head(names), tt, group)
         IN tags_loop(Tail(names), tt, group, r.table, Append(tags_list, r.pk))

\* lines 144-149: [list, table]; the list is optional (None without tt)
handle_tags(tt, group, tagTable) ==
    IF Truthy(tt)
    THEN LET r == tags_loop(str_split(tt[1], ","), tt[1], group, tagTable, <<>>)
         IN [list |-> <<r.list>>, table |-> r.table]
    ELSE [list |-> <<>>, table |-> tagTable]

\* raise ParameterError(text), with the Tag table as it is at that moment
Raise(text, tagTable) == [ok |-> FALSE, text |-> text, tags |-> tagTable]

\* decode_expense_params resolving the tags before it checks the description
\* and the date
decode_tags_first(params, group, tagTable, rateTable) ==
    IF params = <<>> THEN Raise(TextNeedAmount, tagTable)
    ELSE LET a == get_amount_and_currency(Head(params), rateTable)
             s == look_for_special_arguments(Tail(params))
             d == handle_date(s.dd)
             t == handle_tags(s.tt, group, tagTable)
         IN IF ~a.ok THEN Raise(a.text, tagTable)
            ELSE IF ~s.ok THEN Raise(s.text, tagTable)
            ELSE IF s.params = <<>> THEN Raise(TextNeedDescription, t.table)
            ELSE IF ~d.ok THEN Raise(TextDateFormat, t.table)
            ELSE [ok |-> TRUE,
                  amount |-> a.amount,
                  exchange_rate |-> a.exchange_rate,
                  original_amount |-> a.original_amount,
                  description |-> str_join(<<" ">>, s.params),
                  dd |-> d.date,
                  tt |-> t.list,
                  tags |-> t.table]

decode_expense_params(params, group, tagTable, rateTable) ==
    IF params = <<>> THEN Raise(TextNeedAmount, tagTable)
    ELSE LET a == get_amount_and_currency(Head(params), rateTable)
             s == look_for_special_arguments(Tail(params))
             d == handle_date(s.dd)
             t == handle_tags(s.tt, group, tagTable)
         IN IF ~a.ok THEN Raise(a.text, tagTable)
            ELSE IF ~s.ok THEN Raise(s.text, tagTable)
            ELSE IF s.params = <<>> THEN Raise(TextNeedDescription, tagTable)
            ELSE IF ~d.ok THEN Raise(TextDateFormat, tagTable)
            ELSE [ok |-> TRUE,
                  amount |-> a.amount,
                  exchange_rate |-> a.exchange_rate,
                  original_amount |-> a.original_amount,
                  description |-> str_join(<<" ">>, s.params),
                  dd |-> d.date,
                  tt |-> t.list,
                  tags |-> t.table]

\* ------------------------------------------------------------- new_expense
\* Expense(user, group, description, amount, date), original_* unset
Expense(user, group, data) ==
    [user |-> user, group |-> group, description |-> data.description,
     amount |-> data.amount, date |-> data.dd,
     original_currency |-> <<>>, original_amount |-> <<>>, tags |-> {}]

\* fill_expense setting the original currency and leaving the amount out
fill_expense_currency_only(expense, data) ==
    LET rated == IF data.exchange_rate # <<>>
                 THEN [expense EXCEPT !.original_currency = <<data.exchange_rate[1].currency>>]
                 ELSE expense
    IN IF data.tt # <<>> /\ data.tt[1] # <<>>
       THEN [rated EXCEPT !.tags = {data.tt[1][i] : i \in 1..Len(data.tt[1])}]
       ELSE rated

\* lines 65-68 and 76-78: the original currency and amount, then the tags
fill_expense(expense, data) ==
    LET rated == IF data.exchange_rate # <<>>
                 THEN [expense EXCEPT !.original_currency = <<data.exchange_rate[1].currency>>,
                                      !.original_amount = <<data.original_amount>>]
                 ELSE expense
    IN IF data.tt # <<>> /\ data.tt[1] # <<>>
       THEN [rated EXCEPT !.tags = {data.tt[1][i] : i \in 1..Len(data.tt[1])}]
       ELSE rated

\* lines 69-75 and 80-81: the conversion notice, expense.save() and the answer
save_expense(expense, data, expenseTable) ==
    [text |-> [kind |-> "saved",
               notice |-> IF data.exchange_rate # <<>>
                          THEN <<[name |-> data.exchange_rate[1].currency,
                                  rate |-> data.exchange_rate[1].rate,
                                  date |-> data.exchange_rate[1].date]>>
                          ELSE <<>>,
               expense |-> expense],
     expenses |-> Append(expenseTable, expense), tags |-> data.tags]

\* lines 56-81, on what decode_expense_params gave: the error's message, or
\* the expense built, saved and reported
answer_with(data, user, group, expenseTable) ==
    IF ~data.ok
    THEN [text |-> [kind |-> "error", text |-> data.text],
          expenses |-> expenseTable, tags |-> data.tags]
    ELSE save_expense(fill_expense(Expense(user, group, data), data), data, expenseTable)

\* [text, expenses, tags]: the response and the two tables afterwards
new_expense(params, user, group, expenseTable, tagTable, rateTable) ==
    answer_with(decode_expense_params(params, group, tagTable, rateTable),
                user, group, expenseTable)

\* ----------------------------------------------------------- show_expenses
\* Expense.objects.filter(group=group) and, below, .filter(user=user)
group_expenses(expenseTable, group) == SelectSeq(expenseTable, LAMBDA x : x.group = group)

user_expense(rows, user) == SelectSeq(rows, LAMBDA x : x.user = user)

\* the date of group_expenses_qs.last(): the queryset is in reverse date order
first_expense_date(rows) ==
    CHOOSE d \in {rows[i].date : i \in 1..Len(rows)} :
        \A i \in 1..Len(rows) : DateLeq(d, rows[i].date)

Zero == Dec(0, 0)

\* [kind]: "empty", "report" with the header date, the total and the line of
\* each listed user, or "fault" when line 220 divides by a zero total
show_expenses(group, expenseTable, members) ==
    LET rows == group_expenses(expenseTable, group)
        total_expenses == DecRound(SumAmounts(rows)[1], 2)
        user_amount(u) ==
            LET sum == SumAmounts(user_expense(rows, u))
            IN DecRound(IF sum = <<>> \/ sum[1] = Zero THEN Zero ELSE sum[1], 2)
        listed == IF Cardinality(members) > 1 THEN members ELSE {}
    IN IF rows = <<>> THEN [kind |-> "empty"]
       ELSE IF listed # {} /\ total_expenses = Zero THEN [kind |-> "fault"]
       ELSE [kind |-> "report",
             since |-> first_expense_date(rows),
             total |-> total_expenses,
             lines |-> [u \in listed |->
                          [amount |-> user_amount(u),
                           percent |-> Percentage(user_amount(u), total_expenses)]]]

\* ---------------------------------------------------------------- handlers
\* the wrapper without group.users.add(user)
user_and_group_not_adding(members, user, group) == members

\* the wrapper of user_and_group: group.users after group.users.add(user)
user_and_group(members, user, group) == [members EXCEPT ![group] = @ \cup {user}]

start(user, group) ==
    /\ users' = user_and_group(users, user, group)
    /\ last' = [op |-> "start", user |-> user, group |-> group, params |-> <<>>,
                text |-> [kind |-> "hello"]]
    /\ UNCHANGED <<expenses, tags, rates>>

\* the store and the message sent once new_expense has returned r
handled(user, group, params, r) ==
    /\ Len(r.expenses) <= MaxExpenses
    /\ users' = user_and_group(users, user, group)
    /\ expenses' = r.expenses
    /\ tags' = r.tags
    /\ last' = [op |-> "load_expense", user |-> user, group |-> group,
                params |-> params, text |-> r.text]
    /\ UNCHANGED rates

load_expense(user, group, params) ==
    handled(user, group, params, new_expense(params, user, group, expenses, tags, rates))

total_expenses(user, group) ==
    LET members == user_and_group(users, user, group)
    IN /\ users' = members
       /\ last' = [op |-> "total_expenses", user |-> user, group |-> group,
                   params |-> <<>>, text |-> show_expenses(group, expenses, members[group])]
       /\ UNCHANGED <<expenses, tags, rates>>

\* ------------------------------------------------------------ the machine
T_0 == <<"0">>
T_5 == <<"5">>
T_5u == <<"5", "u">>
T_5r == <<"5", "r">>
T_l == <<"l">>
T_ab == <<"a", ",", "b">>
T_date == <<"1", "/", "2", "/", "2", "0">>

\* the commands sent to the running bot: two that fail, a plain expense, one
\* of amount zero with two tags, a dated one in a currency that has rates and
\* one in a currency that has none
StoreCommands ==
    { <<>>, <<T_5, T_tt, T_ab>>,
      <<T_5, T_l>>, <<T_0, T_tt, T_ab, T_l>>, <<T_5u, T_dd, T_date, T_l>>, <<T_5r, T_l>> }

NoUpdate == [op |-> "none", user |-> "", group |-> "", params |-> <<>>,
             text |-> [kind |-> "none"]]

Init ==
    /\ users = [g \in Groups |-> {}]
    /\ expenses = <<>>
    /\ tags = <<>>
    /\ rates = RateTable
    /\ last = NoUpdate

Next ==
    \/ \E u \in Users, g \in Groups : start(u, g)
    \/ \E u \in Users, g \in Groups, p \in StoreCommands : load_expense(u, g, p)
    \/ \E u \in Users, g \in Groups : total_expenses(u, g)

Spec == Init /\ [][Next]_vars

\* ------------------------------------------- the parser on every command
ParseVocabulary == {T_5, T_5u, T_dd, T_tt, T_date, T_ab}

ParseCommands == UNION {[1..n -> ParseVocabulary] : n \in 0..MaxTokens}

\* a store that already holds an expense and the tag named "a,b"
SeededExpense ==
    [user |-> "A", group |-> "g1", description |-> T_l, amount |-> Dec(5, 0),
     date |-> Today, original_currency |-> <<>>, original_amount |-> <<>>, tags |-> {1}]

InitParse ==
    /\ users = [g \in Groups |-> IF g = "g1" THEN {"A"} ELSE {}]
    /\ \/ expenses = <<>> /\ tags = <<>>
       \/ expenses = <<SeededExpense>> /\ tags = <<[name |-> T_ab, group |-> "g1"]>>
    /\ rates = RateTable
    /\ \E p \in ParseCommands :
           last = [op |-> "pending", user |-> "A", group |-> "g1", params |-> p,
                   text |-> [kind |-> "none"]]

NextParse == last.op = "pending" /\ load_expense(last.user, last.group, last.params)

SpecParse == InitParse /\ [][NextParse]_vars

\* ------------------------------------------------- what the claims speak of
Error(text) == [kind |-> "error", text |-> text]

Done == last.op = "load_expense"
Saved == Done /\ last.text.kind = "saved"
Failed == Done /\ last.text.kind = "error"

\* the record the last command created
Created == expenses[Len(expenses)]

ValidAmount(p) == p # <<>> /\ get_amount_and_currency(Head(p), rates).ok

FirstOccurrence(seq, x) ==
    IF \E i \in 1..Len(seq) : seq[i] = x
    THEN CHOOSE i \in 1..Len(seq) : seq[i] = x /\ \A j \in 1..Len(seq) : seq[j] = x => i <= j
    ELSE 0

Occurrences(seq, x) == Cardinality({i \in 1..Len(seq) : seq[i] = x})

RECURSIVE SpaceJoined(_)
SpaceJoined(seq) ==
    IF Len(seq) = 1 THEN seq[1] ELSE seq[1] \o <<" ">> \o SpaceJoined(Tail(seq))

\* The modifiers of a command p read one after the other: dd in the tokens
\* after the amount, then tt in what is left once dd and its value are gone.
Rest(p) == Tail(p)
DdAt(p) == FirstOccurrence(Rest(p), T_dd)
DdLacksValue(p) == DdAt(p) # 0 /\ DdAt(p) = Len(Rest(p))
DdValue(p) == IF DdAt(p) = 0 \/ DdLacksValue(p) THEN <<>> ELSE <<Rest(p)[DdAt(p) + 1]>>
AfterDd(p) ==
    IF DdAt(p) = 0 THEN Rest(p)
    ELSE SubSeq(Rest(p), 1, DdAt(p) - 1) \o SubSeq(Rest(p), DdAt(p) + 2, Len(Rest(p)))
TtAt(p) == FirstOccurrence(AfterDd(p), T_tt)
TtLacksValue(p) == TtAt(p) # 0 /\ TtAt(p) = Len(AfterDd(p))
TtValue(p) == IF TtAt(p) = 0 \/ TtLacksValue(p) THEN <<>> ELSE <<AfterDd(p)[TtAt(p) + 1]>>
AfterTt(p) ==
    IF TtAt(p) = 0 THEN AfterDd(p)
    ELSE SubSeq(AfterDd(p), 1, TtAt(p) - 1) \o SubSeq(AfterDd(p), TtAt(p) + 2, Len(AfterDd(p)))
NoValueLacks(p) == ~DdLacksValue(p) /\ ~TtLacksValue(p)

\* no keyword is written twice in the command p
NoRepeat(p) == \A kw \in {T_dd, T_tt} : Occurrences(Rest(p), kw) <= 1

\* The modifiers of a command p read where they stand in p itself: each
\* keyword's first place in the tokens after the amount, and the token after it.
PlaceOf(p, kw) == FirstOccurrence(Rest(p), kw)
FollowerOf(p, kw) ==
    IF PlaceOf(p, kw) = 0 \/ PlaceOf(p, kw) = Len(Rest(p)) THEN <<>>
    ELSE <<Rest(p)[PlaceOf(p, kw) + 1]>>
Taken(p) == UNION {{PlaceOf(p, kw), PlaceOf(p, kw) + 1} : kw \in {k \in {T_dd, T_tt} : PlaceOf(p, k) # 0}}
RECURSIVE KeepFrom(_, _, _)
KeepFrom(seq, i, gone) ==
    IF i > Len(seq) THEN <<>>
    ELSE (IF i \in gone THEN <<>> ELSE <<seq[i]>>) \o KeepFrom(seq, i + 1, gone)
Untaken(p) == KeepFrom(Rest(p), 1, Taken(p))

\* ================================================================= claims

\* C1: whenever decode_expense_params fails with ParameterError on the tokens
\* of a command (empty input, invalid amount, modifier without value, invalid
\* date, missing description), new_expense answers with that error's message
\* and the command leaves the Expense table and the Tag table as they were.
C1_FailedCommandLeavesStore ==
    [][(last.op = "pending" /\ last'.op = "load_expense") =>
          LET d == decode_expense_params(last.params, last.group, tags, rates)
          IN ~d.ok => /\ last'.text = Error(d.text)
                      /\ expenses' = expenses
                      /\ tags' = tags]_vars

\* a command with a tt value failed on its date, in a store with no tag yet
C1_Witness ==
    /\ Failed /\ last.text = Error(TextDateFormat)
    /\ TtValue(last.params) # <<>>
    /\ tags = <<>>

\* C5: every persisted record has original_amount and original_currency both
\* set or both unset, and the record a command created has them set exactly
\* when get_amount_and_currency applied an exchange rate to the amount token
\* (and then they are that rate's currency and the amount before conversion).
C5_OriginalBothOrNeither ==
    /\ \A i \in 1..Len(expenses) :
          (expenses[i].original_amount = <<>>) <=> (expenses[i].original_currency = <<>>)
    /\ Saved =>
          LET a == get_amount_and_currency(Head(last.params), rates)
          IN /\ (Created.original_currency # <<>>) <=> (a.exchange_rate # <<>>)
             /\ (Created.original_amount # <<>>) <=> (a.exchange_rate # <<>>)
             /\ a.exchange_rate # <<>> =>
                   /\ Created.original_currency = <<a.exchange_rate[1].currency>>
                   /\ Created.original_amount = <<a.original_amount>>
                   /\ Created.amount = DecMul(a.original_amount, a.exchange_rate[1].rate)

\* a command whose amount was converted has just been saved
C5_Witness ==
    /\ Saved
    /\ Created.original_currency = <<<<"u">>>>
    /\ Created.original_amount = <<Dec(5, 0)>>

\* the unrounded subtotals of the given members, added up
RECURSIVE SubtotalsOf(_, _)
SubtotalsOf(members, rows) ==
    IF members = {} THEN Zero
    ELSE LET u == CHOOSE m \in members : TRUE
             own == SumAmounts(user_expense(rows, u))
         IN DecAdd(IF own = <<>> THEN Zero ELSE own[1], SubtotalsOf(members \ {u}, rows))

\* C10: the owner of every persisted record is a member of the record's group,
\* and in every group with more than one member the members' unrounded
\* subtotals add up to the unrounded total of the group's records.
C10_OwnersAreMembers ==
    /\ \A i \in 1..Len(expenses) : expenses[i].user \in users[expenses[i].group]
    /\ \A g \in Groups :
          LET rows == group_expenses(expenses, g)
          IN (rows # <<>> /\ Cardinality(users[g]) > 1) =>
                SubtotalsOf(users[g], rows) = SumAmounts(rows)[1]

\* a group of two members, each of them owning a record of the group
C10_Witness ==
    \E g \in Groups :
        /\ users[g] = {"A", "B"}
        /\ \A u \in users[g] : user_expense(group_expenses(expenses, g), u) # <<>>

\* C7 as amended: with a valid amount token, a modifier keyword whose first
\* occurrence is the last token of the sequence at the moment the keyword is
\* looked for makes decode_expense_params fail with that keyword's own help
\* text: dd in the tokens after the amount, tt in what is left of them once dd
\* and its value are removed (provided dd did not lack its value).
C7_KeywordWithoutValue ==
    (Done /\ ValidAmount(last.params)) =>
        /\ DdLacksValue(last.params) => last.text = Error(TextHelpDd)
        /\ (~DdLacksValue(last.params) /\ TtLacksValue(last.params)) =>
              last.text = Error(TextHelpTt)

\* dd had its value and tt, the last token, had none: the tt help text is sent
C7_Witness ==
    /\ Failed /\ ValidAmount(last.params)
    /\ DdValue(last.params) # <<>> /\ ~DdLacksValue(last.params)
    /\ TtLacksValue(last.params)
    /\ last.text = Error(TextHelpTt)

\* C7 as stated: with a valid amount token (and no keyword written twice),
\* whenever dd or tt is the last token of the command, decode_expense_params
\* fails with that keyword's help text, whether or not the other keyword is
\* present.
C7_AsStated ==
    (Done /\ ValidAmount(last.params) /\ Rest(last.params) # <<>> /\ NoRepeat(last.params)) =>
        /\ Rest(last.params)[Len(Rest(last.params))] = T_dd => last.text = Error(TextHelpDd)
        /\ Rest(last.params)[Len(Rest(last.params))] = T_tt => last.text = Error(TextHelpTt)

\* C9 as amended: with a valid amount token and no keyword lacking its value,
\* the value of each modifier is the token that follows the first occurrence
\* of its keyword in the sequence as it stands when the keyword is looked for
\* (dd first, then tt in what is left once dd and its value are removed); only
\* that occurrence and its value are removed; the parse fails for a missing
\* description exactly when no token remains then; and a saved expense has the
\* remaining tokens, in order and joined by single spaces, as its description,
\* the current date when there is no dd and no tags when there is no tt.
C9_ModifiersAndDescription ==
    (Done /\ ValidAmount(last.params)) =>
        LET p == last.params
            s == look_for_special_arguments(Rest(p))
        IN /\ NoValueLacks(p) =>
                 /\ s.ok
                 /\ s.dd = DdValue(p)
                 /\ s.tt = TtValue(p)
                 /\ s.params = AfterTt(p)
           /\ (last.text = Error(TextNeedDescription)) <=> (NoValueLacks(p) /\ AfterTt(p) = <<>>)
           /\ Saved =>
                 /\ Created.description = SpaceJoined(AfterTt(p))
                 /\ DdAt(p) = 0 => Created.date = Today
                 /\ DdAt(p) # 0 => <<Created.date>> = strptime(DdValue(p)[1])
                 /\ TtAt(p) = 0 => Created.tags = {}

\* an expense was saved from a command with both modifiers and a description
C9_Witness ==
    /\ Saved
    /\ DdValue(last.params) # <<>>
    /\ TtValue(last.params) # <<>>
    /\ Created.description = SpaceJoined(AfterTt(last.params))

\* C9 as stated: with a valid amount token and a token after each keyword
\* that is present (and no keyword written twice), the value of each present modifier is the token that
\* follows its keyword in the command, the keywords and those tokens are what
\* is removed, the parse fails for a missing description exactly when nothing
\* else remains, and otherwise the description is the other tokens joined.
C9_AsStated ==
    (/\ Done /\ ValidAmount(last.params) /\ NoRepeat(last.params)
     /\ \A kw \in {T_dd, T_tt} : PlaceOf(last.params, kw) < Len(Rest(last.params))) =>
        LET p == last.params
            s == look_for_special_arguments(Rest(p))
        IN /\ s.ok
           /\ s.dd = FollowerOf(p, T_dd)
           /\ s.tt = FollowerOf(p, T_tt)
           /\ s.params = Untaken(p)
           /\ (last.text = Error(TextNeedDescription)) <=> (Untaken(p) = <<>>)
           /\ Saved => Created.description = SpaceJoined(Untaken(p))

\* the report of group g gives the sum of the amounts of its records
ReportsTheSum(g) ==
    LET rows == group_expenses(expenses, g)
        report == show_expenses(g, expenses, users[g])
    IN rows # <<>> => (report.kind = "report" /\ report.total = SumAmounts(rows)[1])

\* C2 as stated: a command whose parse succeeded adds exactly one record to
\* the Expense table and a failed one adds none, and after every command the
\* report of each group that has records gives as total the sum of the
\* amounts of the group's records.
C2_AsStated ==
    [][/\ (last'.op = "load_expense" /\ last'.text.kind = "saved") =>
              Len(expenses') = Len(expenses) + 1
       /\ (last'.op = "load_expense" /\ last'.text.kind = "error") =>
              expenses' = expenses
       /\ \A g \in Groups : ReportsTheSum(g)']_vars

\* C3 as stated: show_expenses answers every request for the total with a
\* text, never with a division fault.
C3_AsStated == last.op = "total_expenses" => last.text.kind # "fault"

\* C4 as stated: for a group with records, the report of a group of more than
\* one member has exactly one line per member, with the member's subtotal (0
\* without records) rounded to 2 decimals and the integer percentage
\* round(subtotal / total * 100); the report of a group of one member has no
\* line.
C4_AsStated ==
    \A g \in Groups :
        LET rows == group_expenses(expenses, g)
            report == show_expenses(g, expenses, users[g])
            subtotal(u) ==
                LET own == SumAmounts(user_expense(rows, u))
                IN DecRound(IF own = <<>> THEN Zero ELSE own[1], 2)
        IN rows # <<>> =>
              /\ report.kind = "report"
              /\ Cardinality(users[g]) > 1 =>
                    /\ DOMAIN report.lines = users[g]
                    /\ \A u \in users[g] :
                          /\ report.lines[u].amount = subtotal(u)
                          /\ report.lines[u].percent = Percentage(subtotal(u), report.total)
              /\ Cardinality(users[g]) = 1 => DOMAIN report.lines = {}

\* a token that starts or ends with a currency code or symbol, and the code of
\* the first such currency of the table
Carries(token) ==
    \E i \in 1..Len(CURRENCY) : \E j \in {1, 2} :
        startswith(token, CURRENCY[i][j]) \/ endswith(token, CURRENCY[i][j])

CurrencyOf(token) ==
    LET i == CHOOSE k \in 1..Len(CURRENCY) :
                 /\ \E j \in {1, 2} :
                       startswith(token, CURRENCY[k][j]) \/ endswith(token, CURRENCY[k][j])
                 /\ \A l \in 1..(k - 1) : \A j \in {1, 2} :
                       ~startswith(token, CURRENCY[l][j]) /\ ~endswith(token, CURRENCY[l][j])
    IN CURRENCY[i][1]

\* C6 as stated: the record created from an amount token that carries a
\* currency code or symbol stores the amount before conversion multiplied by
\* the most recent rate of that currency, and the record created from a token
\* without such a marker stores the token's amount.
C6_AsStated ==
    Saved =>
        LET token == Head(last.params)
            a == get_amount_and_currency(token, rates)
        IN IF Carries(token)
           THEN \E i \in 1..Len(rates) :
                    /\ rates[i].currency = CurrencyOf(token)
                    /\ \A j \in 1..Len(rates) :
                          rates[j].currency = CurrencyOf(token) =>
                              DateLeq(rates[j].date, rates[i].date)
                    /\ Created.amount = DecMul(a.original_amount, rates[i].rate)
           ELSE <<Created.amount>> = Decimal(str_replace(token, <<",">>, <<".">>))

\* C8 as stated: the record created from a command with a tt value carries,
\* for each name the value splits into on commas, the Tag of the command's
\* group with that name, and no other; no two rows of the Tag table have the
\* same name and group; a command without tt leaves the Tag table as it was.
C8_AsStated ==
    [][(last'.op = "load_expense" /\ last'.text.kind = "saved") =>
          LET p == last'.params
              e == expenses'[Len(expenses')]
          IN /\ TtValue(p) # <<>> =>
                   LET names == str_split(TtValue(p)[1], ",")
                   IN /\ \A k \in 1..Len(names) : \E pk \in e.tags :
                             tags'[pk].name = names[k] /\ tags'[pk].group = last'.group
                      /\ \A pk \in e.tags : \E k \in 1..Len(names) :
                             tags'[pk].name = names[k] /\ tags'[pk].group = last'.group
             /\ TtValue(p) = <<>> => tags' = tags
             /\ \A i, j \in 1..Len(tags') :
                   (tags'[i].name = tags'[j].name /\ tags'[i].group = tags'[j].group) => i = j]_vars

====
